---- MODULE Spec2Model ----
(***************************************************************************)
(* PRTFile (prt_file.py): loading and writing of the PRT container, a main *)
(* stream (palettes, bitmap table, animation table, trailing bytes) and a  *)
(* companion BMP blob holding the pixel rows.                              *)
(*                                                                         *)
(* The main stream is a byte sequence.  While the first Load runs, the     *)
(* bytes of the input stream are supplied read by read (mode "input"): a   *)
(* forward-only reader cannot tell a stream fixed in advance from one that *)
(* is revealed as it is read.  After Write, the written stream is read     *)
(* back by a fresh PRTFile (mode "replay"): prt_file then holds the bytes  *)
(* not consumed yet.  The variable focus names the section of the input    *)
(* stream in which the input varies freely; the other sections are well    *)
(* formed.                                                                 *)
(***************************************************************************)
EXTENDS Integers, Sequences, FiniteSets, TLC

VARIABLES
    focus, mode, pc, err, msg, nread,
    prt_file, bmp_file,
    palettes, bitmaps, animations, num_optional_entries, extra_data,
    num_palettes, pal, num_tags_left, tags_read, tag, section_size,
    num_bitmaps, bitmap_fields,
    num_anims, num_frames, num_subframes,
    num_loaded_frames, num_loaded_subframes, num_loaded_anims,
    animation, frames, frame_data, subframes,
    records_left, loaded, mutations, written

container == <<palettes, bitmaps, animations, num_optional_entries, extra_data>>

palLocals == <<num_palettes, pal, num_tags_left, tags_read>>

tagLocals == <<tag, section_size>>

animLocals == <<num_anims, num_frames, num_subframes, num_loaded_frames,
                num_loaded_subframes, num_loaded_anims, animation, frames,
                frame_data, subframes>>

session == <<focus, mode, loaded, mutations, written>>

vars == <<focus, mode, pc, err, msg, nread, prt_file, bmp_file,
          palettes, bitmaps, animations, num_optional_entries, extra_data,
          num_palettes, pal, num_tags_left, tags_read, tag, section_size,
          num_bitmaps, bitmap_fields,
          num_anims, num_frames, num_subframes, num_loaded_frames,
          num_loaded_subframes, num_loaded_anims, animation, frames,
          frame_data, subframes, records_left, loaded, mutations, written>>

---------------------------------------------------------------------------
(* Bounds of the model. *)

\* count fields of the palette section take values 0..MaxPalettes
MaxPalettes == 1
\* tag/size headers the input stream holds per palette entry
MaxTags == 3
\* the bitmap count field takes values 0..MaxBitmaps
MaxBitmaps == 1
\* count fields of the animation section take values 0..MaxCount
MaxCount == 2
\* animation, frame, subframe and appendix records the input stream holds
MaxRecords == 4
\* mutations of the loaded container before Write
MaxMutations == 1

---------------------------------------------------------------------------
(* struct: little-endian packing and unpacking. *)

Min(a, b) == IF a < b THEN a ELSE b

\* 256^n for the byte positions of a field of at most four bytes
Pow256(n) == IF n = 0 THEN 1 ELSE IF n = 1 THEN 256 ELSE IF n = 2 THEN 65536
             ELSE 16777216

\* struct.pack of an unsigned field of n bytes ('B', 'I')
PackU(n, v) == [i \in 1..n |-> (v \div Pow256(i - 1)) % 256]

\* struct.unpack of an unsigned field ('B', 'I')
UnpackU(b) == IF Len(b) = 0 THEN 0
              ELSE IF Len(b) = 1 THEN b[1]
              ELSE IF Len(b) = 2 THEN b[1] + 256 * b[2]
              ELSE b[1] + 256 * b[2] + 65536 * b[3] + 16777216 * b[4]

\* struct.pack('<h'): two's complement, 16 bits
PackS16(v) == PackU(2, IF v < 0 THEN v + 65536 ELSE v)

\* struct.unpack('<h')
UnpackS16(b) == IF UnpackU(b) >= 32768 THEN UnpackU(b) - 65536 ELSE UnpackU(b)

Slice(s, from, n) == SubSeq(s, from, from + n - 1)

Drop(s, n) == SubSeq(s, n + 1, Len(s))

\* the four-byte section tags
TagCPAL == <<67, 80, 65, 76>>
TagPPAL == <<80, 80, 65, 76>>
TagRIFF == <<82, 73, 70, 70>>
TagHead == <<104, 101, 97, 100>>
TagData == <<100, 97, 116, 97>>
TagJunk == <<74, 85, 78, 75>>
SigBM == <<66, 77>>

\* optional1 = None: an absent optional value (present values are 0..255)
None == -1

---------------------------------------------------------------------------
(* The streams. *)

\* what file.read(n) returns: in replay mode the next n bytes of the rest f
\* of the written stream (fewer at its end); in input mode any of the byte
\* strings S the input may hold here, or a stream that ends one byte early
Inputs(f, n, S) ==
    IF mode = "replay" THEN {SubSeq(f, 1, Min(n, Len(f)))}
    ELSE S \cup {[i \in 1..(n - 1) |-> 0]}

\* the rest of the stream after d was read from f
After(f, d) == IF mode = "replay" THEN Drop(f, Len(d)) ELSE f

\* the companion blob: a header of at most 14 bytes, pad zero bytes, the data
BmpLen(b) == Len(b.hdr) + b.pad + Len(b.data)

BmpAt(b, i) == IF i <= Len(b.hdr) THEN b.hdr[i]
               ELSE IF i <= Len(b.hdr) + b.pad THEN 0
               ELSE b.data[i - Len(b.hdr) - b.pad]

\* _bmp_file.seek(off); _bmp_file.read(n)
BmpRead(b, off, n) ==
    IF off >= BmpLen(b) THEN <<>>
    ELSE [i \in 1..Min(n, BmpLen(b) - off) |-> BmpAt(b, off + i)]

BmpHeader(size, data_start) ==
    SigBM \o PackU(4, size) \o <<0, 0, 0, 0>> \o PackU(4, data_start)

---------------------------------------------------------------------------
(* Construction. *)

Focuses == {"palettes", "bitmaps", "animations"}

NoBlob == [hdr |-> <<>>, pad |-> 0, data |-> <<>>]

NoAnimation == [unknown1 |-> 0, bounding_box |-> <<0, 0, 0, 0>>,
                offset |-> <<0, 0>>, unknown2 |-> 0, frames |-> <<>>,
                appendix |-> <<>>, unknown3 |-> 0]

NoFrame == [subframes |-> <<>>, unknown |-> 0, optional1 |-> None,
            optional2 |-> None, optional3 |-> None, optional4 |-> None]

NoContainer == [palettes |-> <<>>, bitmaps |-> <<>>, animations |-> <<>>,
                num_optional_entries |-> 0, extra_data |-> <<>>]

\* the fields of a bitmap table entry, before any was read
NoBitmapFields == [padded_w |-> 0, offset |-> 0, h |-> 0, w |-> 0,
                   img_type |-> 0, pal_id |-> 0]

\* PRTFile.__init__: the container starts empty
NewPRTFile ==
    /\ palettes = <<>>
    /\ bitmaps = <<>>
    /\ animations = <<>>
    /\ num_optional_entries = 0
    /\ extra_data = <<>>

Init ==
    /\ focus \in Focuses
    /\ mode = "input"
    /\ pc = "cpal"
    /\ err = "none"
    /\ msg = "none"
    /\ nread = 0
    /\ prt_file = <<>>
    /\ bmp_file = NoBlob
    /\ NewPRTFile
    /\ num_palettes = 0
    /\ pal = <<>>
    /\ num_tags_left = 0
    /\ tags_read = 0
    /\ tag = <<>>
    /\ section_size = 0
    /\ num_bitmaps = 0
    /\ bitmap_fields = NoBitmapFields
    /\ num_anims = 0
    /\ num_frames = 0
    /\ num_subframes = 0
    /\ num_loaded_frames = 0
    /\ num_loaded_subframes = 0
    /\ num_loaded_anims = 0
    /\ animation = NoAnimation
    /\ frames = 0
    /\ frame_data = NoFrame
    /\ subframes = 0
    /\ records_left = MaxRecords
    /\ loaded = NoContainer
    /\ mutations = 0
    /\ written = <<>>

\* raise kind(why) out of Load after n bytes of the main stream were consumed
\* by the failing step; the container keeps what was loaded so far
Raise(kind, why, n, rest) ==
    /\ pc' = "error"
    /\ err' = kind
    /\ msg' = why
    /\ nread' = n
    /\ prt_file' = rest

---------------------------------------------------------------------------
(* _LoadPalettes. *)

SizePPAL == 1048
SizeHead == 4
SizeData == 1024
NumColors == 256
InitialTags == 2

\* the 1024 bytes of a data section on disk: (blue, green, red, flags) each
PaletteBytes(seed) ==
    [k \in 1..SizeData |->
        LET j == (k - 1) \div 4
            c == (k - 1) % 4
        IN  IF c = 0 THEN (j + seed) % 256
            ELSE IF c = 1 THEN (3 * j) % 256
            ELSE IF c = 2 THEN 255 - j
            ELSE seed % 256]

\* palette.Color(r=entry[2], g=entry[1], b=entry[0], flags=entry[3]) for
\* every complete 4-byte entry of d
ColorsOf(d) ==
    [j \in 1..(Len(d) \div 4) |->
        [r |-> d[4 * j - 1], g |-> d[4 * j - 2], b |-> d[4 * j - 3],
         flags |-> d[4 * j]]]

\* the CPAL headers the input may hold
CPALChoices ==
    {t \o PackU(4, n) :
        t \in IF focus = "palettes" THEN {TagCPAL, TagJunk} ELSE {TagCPAL},
        n \in IF focus = "animations" THEN {1} ELSE 0..MaxPalettes}

\* the tag/size headers the input may hold inside a palette entry
TagChoices ==
    IF focus = "palettes"
    THEN IF tags_read >= MaxTags THEN {}
         ELSE {TagPPAL \o PackU(4, SizePPAL), TagPPAL \o PackU(4, SizePPAL - 1),
               TagRIFF \o PackU(4, 16), TagRIFF \o PackU(4, SizePPAL),
               TagCPAL \o PackU(4, 1),
               TagHead \o PackU(4, SizeHead), TagHead \o PackU(4, 8),
               TagData \o PackU(4, SizeData), TagData \o PackU(4, SizeData - 4),
               TagJunk \o PackU(4, 0)}
    ELSE IF tags_read = 0 THEN {TagPPAL \o PackU(4, SizePPAL)}
    ELSE IF tags_read = 1 THEN {TagHead \o PackU(4, SizeHead)}
    ELSE IF tags_read = 2 THEN {TagData \o PackU(4, SizeData)}
    ELSE {}

HeadChoices ==
    IF focus = "palettes" THEN {PackU(4, n) : n \in 0..2} ELSE {PackU(4, 1)}

DataChoices == {PaletteBytes(Len(palettes))}

\* lines 35-37: the CPAL header; line 39 enters the loop over the palettes
LoadCPAL ==
    /\ pc = "cpal"
    /\ \E d \in Inputs(prt_file, 8, CPALChoices) :
        LET rest == After(prt_file, d) IN
        IF Len(d) # 8
        THEN /\ Raise("PRTLoadError", "ran out of data", Len(d), rest)
             /\ UNCHANGED <<palLocals, tag>>
        ELSE IF Slice(d, 1, 4) # TagCPAL
        THEN /\ Raise("PRTLoadError", "signature was not CPAL", 8, rest)
             /\ tag' = Slice(d, 1, 4)
             /\ UNCHANGED palLocals
        ELSE /\ num_palettes' = UnpackU(Slice(d, 5, 4))
             /\ tag' = Slice(d, 1, 4)
             /\ pal' = <<>>
             /\ num_tags_left' = InitialTags
             /\ tags_read' = 0
             /\ pc' = IF UnpackU(Slice(d, 5, 4)) > 0 THEN "paltag" ELSE "bmphdr"
             /\ nread' = 8
             /\ prt_file' = rest
             /\ UNCHANGED <<err, msg>>
    /\ UNCHANGED <<bmp_file, container, section_size, num_bitmaps,
                   bitmap_fields, animLocals, records_left, session>>

\* lines 42-64 after an iteration of the while loop left ntl tags to read and
\* the palette newpal: the loop goes on, or the palette is appended and the
\* for loop goes to the next palette or ends
PaletteContinue(ntl, newpal, n, rest) ==
    /\ nread' = n
    /\ prt_file' = rest
    /\ UNCHANGED <<err, msg, num_palettes>>
    /\ IF ntl > 0
       THEN /\ num_tags_left' = ntl
            /\ pal' = newpal
            /\ tags_read' = tags_read + 1
            /\ pc' = "paltag"
            /\ UNCHANGED palettes
       ELSE /\ palettes' = Append(palettes, newpal)
            /\ pal' = <<>>
            /\ num_tags_left' = InitialTags
            /\ tags_read' = 0
            /\ pc' = IF Len(palettes) + 1 < num_palettes THEN "paltag"
                     ELSE "bmphdr"

PaletteRaise(why, n, rest) ==
    /\ Raise("PRTLoadError", why, n, rest)
    /\ UNCHANGED <<palettes, palLocals>>

\* a RIFF section taken for a wrapper as well
IsWrapperTagOrRIFF(t) == t \in {TagPPAL, TagRIFF}

\* line 45: the tag of the wrapper section, which has no payload of its own
IsWrapperTag(t) == t = TagPPAL

\* lines 46, 52, 56: the declared size of a section is not the expected one
SizeMismatch(size, expected) == size # expected

\* lines 42-63: one iteration of the while loop over the tags of a palette
LoadPaletteTag ==
    /\ pc = "paltag"
    /\ \E d \in Inputs(prt_file, 8, TagChoices) :
        LET rest == After(prt_file, d)
            t == Slice(d, 1, 4)
            size == UnpackU(Slice(d, 5, 4))
        IN
        /\ tag' = IF Len(d) = 8 THEN t ELSE tag
        /\ section_size' = IF Len(d) = 8 THEN size ELSE section_size
        /\ IF Len(d) # 8 THEN PaletteRaise("ran out of data", Len(d), rest)
           ELSE IF IsWrapperTag(t)
           THEN IF SizeMismatch(size, SizePPAL)
                THEN PaletteRaise("Unexpected PPAL size", 8, rest)
                ELSE PaletteContinue(num_tags_left - 1, pal, 8, rest)
           ELSE IF t = TagRIFF
           THEN PaletteRaise("RIFF tag not implemented", 8, rest)
           ELSE IF t = TagHead
           THEN IF SizeMismatch(size, SizeHead)
                THEN PaletteRaise("Unexpected head size", 8, rest)
                ELSE \E h \in Inputs(rest, 4, HeadChoices) :
                       IF Len(h) # 4
                       THEN PaletteRaise("ran out of data", 8 + Len(h),
                                         After(rest, h))
                       ELSE PaletteContinue(UnpackU(h), pal, 12,
                                            After(rest, h))
           ELSE IF t = TagData
           THEN IF SizeMismatch(size, SizeData)
                THEN PaletteRaise("Unexpected data size", 8, rest)
                ELSE \E c \in Inputs(rest, SizeData, DataChoices) :
                       IF Len(c) # 4 * NumColors
                       THEN PaletteRaise("ran out of data", 8 + Len(c),
                                         After(rest, c))
                       ELSE PaletteContinue(num_tags_left - 1,
                                            pal \o ColorsOf(c), 8 + Len(c),
                                            After(rest, c))
           ELSE PaletteRaise("unhandled tag", 8, rest)
    /\ UNCHANGED <<bmp_file, bitmaps, animations, num_optional_entries,
                   extra_data, num_bitmaps, bitmap_fields, animLocals,
                   records_left, session>>

---------------------------------------------------------------------------
(* _LoadBitmaps. *)

SizeBmpHeader == 14

\* the pixel bytes the input blob holds
PixelBytes(n) == [k \in 1..n |-> (7 * k + 1) % 256]

GoodBlob(n) == [hdr |-> BmpHeader(SizeBmpHeader + n, SizeBmpHeader), pad |-> 0,
                data |-> PixelBytes(n)]

\* the companion blobs the input may be: complete, with fewer pixel bytes
\* than the bitmap table asks for, with another signature, with a short header
BlobChoices ==
    IF focus = "bitmaps"
    THEN {GoodBlob(16), GoodBlob(4),
          [hdr |-> <<66, 65>> \o Drop(BmpHeader(30, 14), 2), pad |-> 0,
           data |-> PixelBytes(16)],
          [hdr |-> <<66, 77, 5, 0, 0>>, pad |-> 0, data |-> <<>>]}
    ELSE {GoodBlob(16)}

\* data_start of struct.unpack('<2s I hh I', buf)
DataStart(b) == UnpackU(Slice(b.hdr, 11, 4))

BitmapCountChoices ==
    IF focus = "bitmaps" THEN {PackU(4, n) : n \in 0..MaxBitmaps}
    ELSE {PackU(4, Min(1, Len(palettes)))}

BitmapEntry(padded_w, offset, h, w, img_type, pal_id) ==
    PackU(4, padded_w) \o PackU(4, offset) \o PackU(4, h) \o PackU(4, w)
        \o PackS16(img_type) \o PackS16(pal_id)

BitmapChoices ==
    IF focus = "bitmaps"
    THEN {BitmapEntry(padded_w, offset, 2, w, 1, pal_id) :
            padded_w \in {4, 8}, offset \in {0, 8}, w \in {1, 5},
            pal_id \in {-1} \cup 0..MaxPalettes}
    ELSE {BitmapEntry(8, 0, 2, 5, 1, 0)}

\* lines 84-88: the header of the companion blob, then the bitmap count
LoadBitmapHeader ==
    /\ pc = "bmphdr"
    /\ \E blob \in IF mode = "input" THEN BlobChoices ELSE {bmp_file} :
        LET buf == BmpRead(blob, 0, SizeBmpHeader) IN
        /\ bmp_file' = blob
        /\ IF Len(buf) # SizeBmpHeader
           THEN /\ Raise("struct.error", "unpack requires a buffer of 14 bytes",
                         0, prt_file)
                /\ UNCHANGED num_bitmaps
           ELSE IF Slice(buf, 1, 2) # SigBM
           THEN /\ Raise("PRTLoadError", "not a valid BMP file", 0, prt_file)
                /\ UNCHANGED num_bitmaps
           ELSE \E d \in Inputs(prt_file, 4, BitmapCountChoices) :
                  IF Len(d) # 4
                  THEN /\ Raise("PRTLoadError", "ran out of data", Len(d),
                                After(prt_file, d))
                       /\ UNCHANGED num_bitmaps
                  ELSE /\ num_bitmaps' = UnpackU(d)
                       /\ pc' = IF UnpackU(d) > 0 THEN "bitmap" ELSE "animhdr"
                       /\ nread' = 4
                       /\ prt_file' = After(prt_file, d)
                       /\ UNCHANGED <<err, msg>>
    /\ UNCHANGED <<container, palLocals, tagLocals, bitmap_fields, animLocals,
                   records_left, session>>

\* the upper limit of the check off by one
PaletteIdOffByOne(pal_id) == pal_id < 0 \/ pal_id > Len(palettes)

\* line 91: the palette index of a bitmap is checked against the palettes
PaletteIdOutOfRange(pal_id) == pal_id < 0 \/ pal_id > Len(palettes) - 1

\* lines 90-102: one entry of the bitmap table and its pixel bytes
LoadBitmap ==
    /\ pc = "bitmap"
    /\ \E d \in Inputs(prt_file, 20, BitmapChoices) :
        LET rest == After(prt_file, d)
            padded_w == UnpackU(Slice(d, 1, 4))
            offset == UnpackU(Slice(d, 5, 4))
            h == UnpackU(Slice(d, 9, 4))
            w == UnpackU(Slice(d, 13, 4))
            img_type == UnpackS16(Slice(d, 17, 2))
            pal_id == UnpackS16(Slice(d, 19, 2))
        IN
        IF Len(d) # 20
        THEN /\ Raise("PRTLoadError", "ran out of data", Len(d), rest)
             /\ UNCHANGED <<bitmaps, bitmap_fields>>
        ELSE IF PaletteIdOutOfRange(pal_id)
        THEN /\ Raise("PRTLoadError", "palette_id out of range", 20, rest)
             /\ bitmap_fields' = [padded_w |-> padded_w, offset |-> offset,
                                  h |-> h, w |-> w, img_type |-> img_type,
                                  pal_id |-> pal_id]
             /\ UNCHANGED bitmaps
        ELSE /\ bitmap_fields' = [padded_w |-> padded_w, offset |-> offset,
                                  h |-> h, w |-> w, img_type |-> img_type,
                                  pal_id |-> pal_id]
             /\ bitmaps' = Append(bitmaps,
                    [palette_id |-> pal_id, image_type |-> img_type,
                     width |-> w, height |-> h,
                     data |-> BmpRead(bmp_file, offset + DataStart(bmp_file),
                                      padded_w * h)])
             /\ pc' = IF Len(bitmaps) + 1 < num_bitmaps THEN "bitmap"
                      ELSE "animhdr"
             /\ nread' = 20
             /\ prt_file' = rest
             /\ UNCHANGED <<err, msg>>
    /\ UNCHANGED <<bmp_file, palettes, animations, num_optional_entries,
                   extra_data, palLocals, tagLocals, num_bitmaps, animLocals,
                   records_left, session>>

---------------------------------------------------------------------------
(* Load: the animation table. *)

\* lines 149-153, 223, 225: 0x80
FlagBit == 128

\* a record of the animation section is read from the input stream
Spend == IF mode = "input" /\ focus = "animations" THEN records_left - 1
         ELSE records_left

\* the records S the input may hold here, while the input stream holds any
Records(S) == IF focus = "animations" /\ records_left = 0 THEN {} ELSE S

Counts == IF focus = "animations" THEN 0..MaxCount ELSE {1}

AnimHeaderChoices ==
    {PackU(4, a) \o PackU(4, f) \o PackU(4, sf) \o PackU(4, 3) :
        a \in Counts, f \in Counts, sf \in Counts}

AnimationChoices ==
    Records({PackU(4, 11) \o PackU(4, 1) \o PackU(4, 2) \o PackU(4, 3)
                \o PackU(4, 4) \o PackU(4, 5) \o PackU(4, 6) \o PackU(4, 12)
                \o PackU(4, n) : n \in Counts})

FrameChoices ==
    Records(IF focus = "animations"
            THEN {<<n + f, u>> : n \in 0..MaxCount, f \in {0, FlagBit},
                                u \in {5, 5 + FlagBit}}
            ELSE {<<1 + FlagBit, 5>>})

SubframeChoices ==
    Records({PackS16(id) \o <<1, 2>> \o PackS16(-2) \o PackS16(3) :
                id \in IF focus = "animations" THEN {0, -1} ELSE {0}})

AppendixChoices ==
    Records({PackU(4, 1) \o PackU(4, 2) \o PackU(4, 3) \o PackU(4, 4)})

ExtraChoices == IF focus = "animations" THEN {<<>>, <<222, 173>>} ELSE {<<190>>}

AnimRaise(why, n, rest) ==
    /\ Raise("PRTLoadError", why, n, rest)
    /\ UNCHANGED <<animations, num_optional_entries, extra_data, animLocals,
                   records_left>>

\* lines 124-130: the four counts of the animation header
LoadAnimHeader ==
    /\ pc = "animhdr"
    /\ \E d \in Inputs(prt_file, 16, AnimHeaderChoices) :
        LET rest == After(prt_file, d) IN
        IF Len(d) # 16
        THEN AnimRaise("ran out of data", Len(d), rest)
        ELSE /\ num_anims' = UnpackU(Slice(d, 1, 4))
             /\ num_frames' = UnpackU(Slice(d, 5, 4))
             /\ num_subframes' = UnpackU(Slice(d, 9, 4))
             /\ num_optional_entries' = UnpackU(Slice(d, 13, 4))
             /\ num_loaded_frames' = 0
             /\ num_loaded_subframes' = 0
             /\ num_loaded_anims' = 0
             /\ pc' = IF UnpackU(Slice(d, 1, 4)) > 0 THEN "anim" ELSE "finish"
             /\ nread' = 16
             /\ prt_file' = rest
             /\ UNCHANGED <<err, msg, animations, extra_data, animation, frames,
                            frame_data, subframes, records_left>>
    /\ UNCHANGED <<bmp_file, palettes, bitmaps, palLocals, tagLocals,
                   num_bitmaps, bitmap_fields, session>>

\* lines 133-141: the fixed record of an animation
LoadAnimation ==
    /\ pc = "anim"
    /\ \E d \in Inputs(prt_file, 36, AnimationChoices) :
        LET rest == After(prt_file, d)
            U(k) == UnpackU(Slice(d, 4 * k + 1, 4))
        IN
        IF Len(d) # 36
        THEN AnimRaise("ran out of data", Len(d), rest)
        ELSE /\ animation' =
                    [unknown1 |-> U(0),
                     bounding_box |-> <<U(1), U(2), U(3), U(4)>>,
                     offset |-> <<U(5), U(6)>>,
                     unknown2 |-> U(7),
                     frames |-> <<>>,
                     appendix |-> <<>>,
                     unknown3 |-> 0]
             /\ frames' = U(8)
             /\ pc' = IF U(8) > 0 THEN "frame" ELSE "appendix_count"
             /\ nread' = 36
             /\ prt_file' = rest
             /\ records_left' = Spend
             /\ UNCHANGED <<err, msg, animations, num_optional_entries,
                            extra_data, num_anims, num_frames, num_subframes,
                            num_loaded_frames, num_loaded_subframes,
                            num_loaded_anims, frame_data, subframes>>
    /\ UNCHANGED <<bmp_file, palettes, bitmaps, palLocals, tagLocals,
                   num_bitmaps, bitmap_fields, session>>

\* lines 174-175: the frame fd is complete
FrameDone(fd) ==
    /\ animation' = [animation EXCEPT !.frames = Append(@, fd)]
    /\ num_loaded_frames' = num_loaded_frames + 1
    /\ pc' = IF Len(animation.frames) + 1 < frames THEN "frame"
             ELSE "appendix_count"

\* lines 144-162: the two leading bytes of a frame and its optional pairs
LoadFrame ==
    /\ pc = "frame"
    /\ \E d \in Inputs(prt_file, 2, FrameChoices) :
        LET rest == After(prt_file, d)
            has12 == d[1] >= FlagBit
            has34 == d[2] >= FlagBit
            count == IF has12 THEN d[1] - FlagBit ELSE d[1]
            unknown == IF has34 THEN d[2] - FlagBit ELSE d[2]
        IN
        IF Len(d) # 2
        THEN AnimRaise("ran out of data", Len(d), rest)
        ELSE \E o12 \in IF has12 THEN Inputs(rest, 2, {<<0, 8>>}) ELSE {<<>>} :
             LET rest12 == IF has12 THEN After(rest, o12) ELSE rest IN
             IF has12 /\ Len(o12) # 2
             THEN AnimRaise("ran out of data", 2 + Len(o12), rest12)
             ELSE \E o34 \in IF has34 THEN Inputs(rest12, 2, {<<9, 10>>})
                             ELSE {<<>>} :
                  LET rest34 == IF has34 THEN After(rest12, o34) ELSE rest12
                      fd == [subframes |-> <<>>,
                             unknown |-> unknown,
                             optional1 |-> IF has12 THEN o12[1] ELSE None,
                             optional2 |-> IF has12 THEN o12[2] ELSE None,
                             optional3 |-> IF has34 THEN o34[1] ELSE None,
                             optional4 |-> IF has34 THEN o34[2] ELSE None]
                  IN
                  IF has34 /\ Len(o34) # 2
                  THEN AnimRaise("ran out of data", 2 + Len(o12) + Len(o34),
                                 rest34)
                  ELSE /\ subframes' = count
                       /\ nread' = 2 + Len(o12) + Len(o34)
                       /\ prt_file' = rest34
                       /\ records_left' = Spend
                       /\ IF count > 0
                          THEN /\ frame_data' = fd
                               /\ pc' = "subframe"
                               /\ UNCHANGED <<animation, num_loaded_frames>>
                          ELSE /\ frame_data' = fd
                               /\ FrameDone(fd)
                       /\ UNCHANGED <<err, msg, animations,
                                      num_optional_entries, extra_data,
                                      num_anims, num_frames, num_subframes,
                                      num_loaded_subframes, num_loaded_anims,
                                      frames>>
    /\ UNCHANGED <<bmp_file, palettes, bitmaps, palLocals, tagLocals,
                   num_bitmaps, bitmap_fields, session>>

\* lines 165-173: one subframe of the current frame
LoadSubframe ==
    /\ pc = "subframe"
    /\ \E d \in Inputs(prt_file, 8, SubframeChoices) :
        LET rest == After(prt_file, d)
            fd == [frame_data EXCEPT !.subframes = Append(@,
                      [bitmap_id |-> UnpackS16(Slice(d, 1, 2)),
                       unknown |-> d[3],
                       subframe_id |-> d[4],
                       offset |-> <<UnpackS16(Slice(d, 5, 2)),
                                    UnpackS16(Slice(d, 7, 2))>>])]
        IN
        IF Len(d) # 8
        THEN AnimRaise("ran out of data", Len(d), rest)
        ELSE /\ frame_data' = fd
             /\ num_loaded_subframes' = num_loaded_subframes + 1
             /\ nread' = 8
             /\ prt_file' = rest
             /\ records_left' = Spend
             /\ IF Len(fd.subframes) < subframes
                THEN /\ pc' = "subframe"
                     /\ UNCHANGED <<animation, num_loaded_frames>>
                ELSE FrameDone(fd)
             /\ UNCHANGED <<err, msg, animations, num_optional_entries,
                            extra_data, num_anims, num_frames, num_subframes,
                            num_loaded_anims, frames, subframes>>
    /\ UNCHANGED <<bmp_file, palettes, bitmaps, palLocals, tagLocals,
                   num_bitmaps, bitmap_fields, session>>

\* line 183: the animation an is complete
AnimationDone(an) ==
    /\ animations' = Append(animations, an)
    /\ animation' = an
    /\ pc' = IF Len(animations) + 1 < num_anims THEN "anim" ELSE "finish"

\* lines 176-177: the appendix count of the current animation
LoadAppendixCount ==
    /\ pc = "appendix_count"
    /\ \E d \in Inputs(prt_file, 4, {PackU(4, n) : n \in Counts}) :
        LET rest == After(prt_file, d)
            an == [animation EXCEPT !.unknown3 = UnpackU(d)]
        IN
        IF Len(d) # 4
        THEN AnimRaise("ran out of data", Len(d), rest)
        ELSE /\ nread' = 4
             /\ prt_file' = rest
             /\ IF UnpackU(d) > 0
                THEN /\ animation' = an
                     /\ pc' = "appendix"
                     /\ UNCHANGED animations
                ELSE AnimationDone(an)
             /\ UNCHANGED <<err, msg, num_optional_entries, extra_data,
                            num_anims, num_frames, num_subframes,
                            num_loaded_frames, num_loaded_subframes,
                            num_loaded_anims, frames, frame_data, subframes,
                            records_left>>
    /\ UNCHANGED <<bmp_file, palettes, bitmaps, palLocals, tagLocals,
                   num_bitmaps, bitmap_fields, session>>

\* lines 179-182: one appendix record of the current animation
LoadAppendix ==
    /\ pc = "appendix"
    /\ \E d \in Inputs(prt_file, 16, AppendixChoices) :
        LET rest == After(prt_file, d)
            U(k) == UnpackU(Slice(d, 4 * k + 1, 4))
            an == [animation EXCEPT
                      !.appendix = Append(@, <<U(0), U(1), U(2), U(3)>>)]
        IN
        IF Len(d) # 16
        THEN AnimRaise("ran out of data", Len(d), rest)
        ELSE /\ num_loaded_anims' = num_loaded_anims + 1
             /\ nread' = 16
             /\ prt_file' = rest
             /\ records_left' = Spend
             /\ IF Len(an.appendix) < an.unknown3
                THEN /\ animation' = an
                     /\ pc' = "appendix"
                     /\ UNCHANGED animations
                ELSE AnimationDone(an)
             /\ UNCHANGED <<err, msg, num_optional_entries, extra_data,
                            num_anims, num_frames, num_subframes,
                            num_loaded_frames, num_loaded_subframes, frames,
                            frame_data, subframes>>
    /\ UNCHANGED <<bmp_file, palettes, bitmaps, palLocals, tagLocals,
                   num_bitmaps, bitmap_fields, session>>

\* line 184
AnimCountMismatch == Len(animations) # num_anims

\* the frame count compared with the wrong counter
FrameCountMismatchWrongCounter == num_loaded_subframes # num_frames

\* line 186
FrameCountMismatch == num_loaded_frames # num_frames

\* line 188
SubframeCountMismatch == num_loaded_subframes # num_subframes

\* lines 184-191: the declared counts are compared with what was loaded, then
\* the rest of the main stream becomes extra_data
LoadFinish ==
    /\ pc = "finish"
    /\ IF AnimCountMismatch
       THEN AnimRaise("incorrect number of animations loaded", 0, prt_file)
       ELSE IF FrameCountMismatch
       THEN AnimRaise("incorrect number of frames loaded", 0, prt_file)
       ELSE IF SubframeCountMismatch
       THEN AnimRaise("incorrect number of subframes loaded", 0, prt_file)
       ELSE \E d \in IF mode = "replay" THEN {prt_file} ELSE ExtraChoices :
              /\ extra_data' = extra_data \o d
              /\ pc' = "done"
              /\ nread' = Len(d)
              /\ prt_file' = After(prt_file, d)
              /\ UNCHANGED <<err, msg, animations, num_optional_entries,
                             animLocals, records_left>>
    /\ UNCHANGED <<bmp_file, palettes, bitmaps, palLocals, tagLocals,
                   num_bitmaps, bitmap_fields, session>>

LoadNext ==
    \/ LoadCPAL
    \/ LoadPaletteTag
    \/ LoadBitmapHeader
    \/ LoadBitmap
    \/ LoadAnimHeader
    \/ LoadAnimation
    \/ LoadFrame
    \/ LoadSubframe
    \/ LoadAppendixCount
    \/ LoadAppendix
    \/ LoadFinish

\* a single Load of an input stream and blob
SpecLoad == Init /\ [][LoadNext]_vars

---------------------------------------------------------------------------
(* Mutation of the loaded container by its owner, between Load and Write. *)

CanMutate == pc = "done" /\ mode = "input" /\ mutations < MaxMutations

Mutated(anims) ==
    /\ animations' = anims
    /\ mutations' = mutations + 1
    /\ UNCHANGED <<focus, mode, pc, err, msg, nread, prt_file, bmp_file,
                   palettes, bitmaps, num_optional_entries, extra_data,
                   palLocals, tagLocals, num_bitmaps, bitmap_fields, animLocals,
                   records_left, loaded, written>>

RemoveLast(s) == SubSeq(s, 1, Len(s) - 1)

AddAnimation ==
    /\ CanMutate
    /\ Mutated(Append(animations, [NoAnimation EXCEPT !.unknown1 = 21]))

RemoveAnimation ==
    /\ CanMutate
    /\ animations # <<>>
    /\ Mutated(RemoveLast(animations))

AddFrame ==
    /\ CanMutate
    /\ \E a \in DOMAIN animations :
        Mutated([animations EXCEPT ![a].frames =
                    Append(@, [NoFrame EXCEPT !.unknown = 6])])

RemoveFrame ==
    /\ CanMutate
    /\ \E a \in DOMAIN animations :
        /\ animations[a].frames # <<>>
        /\ Mutated([animations EXCEPT ![a].frames = RemoveLast(@)])

AddSubframe ==
    /\ CanMutate
    /\ \E a \in DOMAIN animations : \E f \in DOMAIN animations[a].frames :
        Mutated([animations EXCEPT ![a].frames[f].subframes =
                    Append(@, [bitmap_id |-> 0, unknown |-> 0,
                               subframe_id |-> 9, offset |-> <<0, 0>>])])

RemoveSubframe ==
    /\ CanMutate
    /\ \E a \in DOMAIN animations : \E f \in DOMAIN animations[a].frames :
        /\ animations[a].frames[f].subframes # <<>>
        /\ Mutated([animations EXCEPT ![a].frames[f].subframes = RemoveLast(@)])

AddAppendix ==
    /\ CanMutate
    /\ \E a \in DOMAIN animations :
        Mutated([animations EXCEPT ![a].appendix = Append(@, <<5, 6, 7, 8>>)])

RemoveAppendix ==
    /\ CanMutate
    /\ \E a \in DOMAIN animations :
        /\ animations[a].appendix # <<>>
        /\ Mutated([animations EXCEPT ![a].appendix = RemoveLast(@)])

\* frame['optional1'] = 3 on a frame that holds neither optional1 nor optional2
SetOptional1 ==
    /\ CanMutate
    /\ \E a \in DOMAIN animations : \E f \in DOMAIN animations[a].frames :
        /\ animations[a].frames[f].optional1 = None
        /\ animations[a].frames[f].optional2 = None
        /\ Mutated([animations EXCEPT ![a].frames[f].optional1 = 3])

\* frame['optional4'] = 4 on a frame that holds neither optional3 nor optional4
SetOptional4 ==
    /\ CanMutate
    /\ \E a \in DOMAIN animations : \E f \in DOMAIN animations[a].frames :
        /\ animations[a].frames[f].optional3 = None
        /\ animations[a].frames[f].optional4 = None
        /\ Mutated([animations EXCEPT ![a].frames[f].optional4 = 4])

Mutate ==
    \/ AddAnimation
    \/ RemoveAnimation
    \/ AddFrame
    \/ RemoveFrame
    \/ AddSubframe
    \/ RemoveSubframe
    \/ AddAppendix
    \/ RemoveAppendix
    \/ SetOptional1
    \/ SetOptional4

---------------------------------------------------------------------------
(* Write. *)

RECURSIVE Concat(_)
\* the concatenation of a sequence of sequences
Concat(ss) == IF ss = <<>> THEN <<>> ELSE Head(ss) \o Concat(Tail(ss))

\* one _prt_file.write(struct.pack(...)) of Write: what it is, the bytes, the
\* animation and frame it belongs to, and whether struct.pack's arguments
\* could be evaluated
Chunk(kind, bytes, a, f) ==
    [kind |-> kind, bytes |-> bytes, a |-> a, f |-> f, ok |-> TRUE]

\* int(None) raises TypeError before anything is written
Failed(kind, a, f) ==
    [kind |-> kind, bytes |-> <<>>, a |-> a, f |-> f, ok |-> FALSE]

\* line 80: the colors of a palette, (blue, green, red, flags) each
ColorBytes(colors) ==
    [k \in 1..(4 * Len(colors)) |->
        LET c == colors[(k - 1) \div 4 + 1]
            i == (k - 1) % 4
        IN  IF i = 0 THEN c.b ELSE IF i = 1 THEN c.g
            ELSE IF i = 2 THEN c.r ELSE c.flags]

\* lines 69-80
WritePalettesChunks ==
    <<Chunk("cpal", TagCPAL \o PackU(4, Len(palettes)), 0, 0)>>
    \o Concat([i \in 1..Len(palettes) |->
        <<Chunk("ppal", TagPPAL \o PackU(4, SizePPAL), 0, 0),
          Chunk("head", TagHead \o PackU(4, SizeHead) \o PackU(4, 1), 0, 0),
          Chunk("data", TagData \o PackU(4, SizeData), 0, 0),
          Chunk("colors", ColorBytes(palettes[i]), 0, 0)>>])

\* line 116: (bmp.width + 3) & ~3
PaddedWidth(width) == ((width + 3) \div 4) * 4

\* master_bmp.data after the first n bitmaps were appended (line 118)
MasterData(n) == Concat([k \in 1..n |-> bitmaps[k].data])

\* lines 113-118
WriteBitmapsChunks ==
    <<Chunk("bitmap_count", PackU(4, Len(bitmaps)), 0, 0)>>
    \o [i \in 1..Len(bitmaps) |->
        Chunk("bitmap",
              BitmapEntry(PaddedWidth(bitmaps[i].width), Len(MasterData(i - 1)),
                          bitmaps[i].height, bitmaps[i].width,
                          bitmaps[i].image_type, bitmaps[i].palette_id),
              0, 0)]

\* bitmap.Bitmap.WriteBMPToOpenFile: the file header, the info header and the
\* palette of the master bitmap, then its data
WrittenDataStart == 1078

WriteBMPToOpenFile(data) ==
    [hdr |-> BmpHeader(WrittenDataStart + Len(data), WrittenDataStart),
     pad |-> WrittenDataStart - SizeBmpHeader,
     data |-> data]

\* v | 0x80 for a byte v
SetFlagBit(v) == IF v % 256 >= FlagBit THEN v ELSE v + FlagBit

\* lines 222, 227 and 224, 229: the pair is written when either is present
EitherPresent(x, y) == x # None \/ y # None

\* lines 216-233: a frame
WriteFrameChunks(frame, a, f) ==
    LET has12 == EitherPresent(frame.optional1, frame.optional2)
        has34 == EitherPresent(frame.optional3, frame.optional4)
        n == Len(frame.subframes)
    IN
    <<Chunk("frame",
            <<IF has12 THEN SetFlagBit(n) ELSE n,
              IF has34 THEN SetFlagBit(frame.unknown) ELSE frame.unknown>>,
            a, f)>>
    \o (IF ~has12 THEN <<>>
        ELSE IF frame.optional1 = None \/ frame.optional2 = None
        THEN <<Failed("opt12", a, f)>>
        ELSE <<Chunk("opt12", <<frame.optional1, frame.optional2>>, a, f)>>)
    \o (IF ~has34 THEN <<>>
        ELSE IF frame.optional3 = None \/ frame.optional4 = None
        THEN <<Failed("opt34", a, f)>>
        ELSE <<Chunk("opt34", <<frame.optional3, frame.optional4>>, a, f)>>)
    \o [k \in 1..n |->
        Chunk("subframe",
              PackS16(frame.subframes[k].bitmap_id)
                \o <<frame.subframes[k].unknown, frame.subframes[k].subframe_id>>
                \o PackS16(frame.subframes[k].offset[1])
                \o PackS16(frame.subframes[k].offset[2]),
              a, f)]

\* line 234: the count written before the appendix records
AppendixCountWritten(anim) == anim.unknown3

\* lines 210-238: an animation
WriteAnimationChunks(anim, a) ==
    <<Chunk("anim",
            PackU(4, anim.unknown1)
              \o PackU(4, anim.bounding_box[1]) \o PackU(4, anim.bounding_box[2])
              \o PackU(4, anim.bounding_box[3]) \o PackU(4, anim.bounding_box[4])
              \o PackU(4, anim.offset[1]) \o PackU(4, anim.offset[2])
              \o PackU(4, anim.unknown2) \o PackU(4, Len(anim.frames)),
            a, 0)>>
    \o Concat([f \in 1..Len(anim.frames) |->
                  WriteFrameChunks(anim.frames[f], a, f)])
    \o <<Chunk("unknown3", PackU(4, AppendixCountWritten(anim)), a, 0)>>
    \o [k \in 1..Len(anim.appendix) |->
        Chunk("appendix",
              PackU(4, anim.appendix[k][1]) \o PackU(4, anim.appendix[k][2])
                \o PackU(4, anim.appendix[k][3]) \o PackU(4, anim.appendix[k][4]),
              a, 0)]

\* lines 197-202
TotalFrames == Len(Concat([a \in 1..Len(animations) |-> animations[a].frames]))

TotalSubframes ==
    Len(Concat([a \in 1..Len(animations) |->
            Concat([f \in 1..Len(animations[a].frames) |->
                        animations[a].frames[f].subframes])]))

\* lines 203-206
WriteHeaderChunks ==
    <<Chunk("num_anims", PackU(4, Len(animations)), 0, 0),
      Chunk("num_frames", PackU(4, TotalFrames), 0, 0),
      Chunk("num_subframes", PackU(4, TotalSubframes), 0, 0),
      Chunk("num_optional_entries", PackU(4, num_optional_entries), 0, 0)>>

\* every write of Write, in order
WritePlan ==
    WritePalettesChunks \o WriteBitmapsChunks \o WriteHeaderChunks
    \o Concat([a \in 1..Len(animations) |->
                  WriteAnimationChunks(animations[a], a)])
    \o <<Chunk("extra_data", extra_data, 0, 0)>>

\* lines 193-240: the writes up to the first one that raises
Write ==
    /\ pc = "done"
    /\ mode = "input"
    /\ \E plan \in {WritePlan} :
       LET bad == {i \in DOMAIN plan : ~plan[i].ok}
           n == IF bad = {} THEN Len(plan)
                ELSE (CHOOSE i \in bad : \A j \in bad : i <= j) - 1
       IN
       /\ written' = SubSeq(plan, 1, n)
       /\ prt_file' = Concat([i \in 1..n |-> plan[i].bytes])
       /\ bmp_file' = WriteBMPToOpenFile(MasterData(Len(bitmaps)))
       /\ pc' = IF bad = {} THEN "written" ELSE "write_error"
       /\ err' = IF bad = {} THEN "none" ELSE "TypeError"
       /\ msg' = IF bad = {} THEN "none" ELSE "int() argument is NoneType"
    /\ UNCHANGED <<focus, mode, nread, container, palLocals, tagLocals,
                   num_bitmaps, bitmap_fields, animLocals, records_left, loaded,
                   mutations>>

\* PRTFile(prt_file, bmp_file) on the written main stream and blob (lines
\* 16-23); the container written is kept for comparison
Reopen ==
    /\ pc = "written"
    /\ mode' = "replay"
    /\ loaded' = [palettes |-> palettes, bitmaps |-> bitmaps,
                  animations |-> animations,
                  num_optional_entries |-> num_optional_entries,
                  extra_data |-> extra_data]
    /\ palettes' = <<>>
    /\ bitmaps' = <<>>
    /\ animations' = <<>>
    /\ num_optional_entries' = 0
    /\ extra_data' = <<>>
    /\ pc' = "cpal"
    /\ nread' = 0
    /\ written' = <<>>
    /\ tag' = <<>>
    /\ section_size' = 0
    /\ bitmap_fields' = NoBitmapFields
    /\ UNCHANGED <<focus, err, msg, prt_file, bmp_file, palLocals, num_bitmaps,
                   animLocals, records_left, mutations>>

Next == LoadNext \/ Mutate \/ Write \/ Reopen

Spec == Init /\ [][Next]_vars

---------------------------------------------------------------------------
(* Properties. *)

\* a Load has returned normally and the container is as it left it
LoadSucceeded == pc = "done" /\ (mode = "replay" \/ mutations = 0)

\* the indexes of the writes of one kind for animation a and frame f
ChunksOf(kind, a, f) ==
    {i \in DOMAIN written :
        written[i].kind = kind /\ written[i].a = a /\ written[i].f = f}

\* C1: Load, Write, Load of the written stream and blob succeeds and yields a
\* container equal to the first: palettes, bitmaps with their pixel bytes,
\* animations with their frames, subframes, optional pairs and appendix
\* records, num_optional_entries and extra_data.
C1_RoundTrip ==
    /\ (mutations = 0 => pc # "write_error")
    /\ (mode = "replay" /\ mutations = 0 /\ pc \in {"done", "error"}) =>
          /\ pc = "done"
          /\ palettes = loaded.palettes
          /\ bitmaps = loaded.bitmaps
          /\ animations = loaded.animations
          /\ num_optional_entries = loaded.num_optional_entries
          /\ extra_data = loaded.extra_data

\* C2: Write emits, for every frame, a count byte with bit 0x80 set and two
\* optional bytes exactly when optional1 or optional2 is present, and no
\* optional byte and the bit clear when both are absent; likewise for
\* optional3, optional4 and the unknown byte.
C2_OptionalGating ==
    pc \in {"written", "write_error"} =>
        \A a \in DOMAIN animations : \A f \in DOMAIN animations[a].frames :
            LET fr == animations[a].frames[f]
                either12 == fr.optional1 # None \/ fr.optional2 # None
                either34 == fr.optional3 # None \/ fr.optional4 # None
            IN
            /\ ChunksOf("frame", a, f) # {}
            /\ \A i \in ChunksOf("frame", a, f) :
                /\ (written[i].bytes[1] >= FlagBit) = either12
                /\ (written[i].bytes[2] >= FlagBit) = either34
            /\ IF either12
               THEN \E i \in ChunksOf("opt12", a, f) : Len(written[i].bytes) = 2
               ELSE ChunksOf("opt12", a, f) = {}
            /\ IF either34
               THEN \E i \in ChunksOf("opt34", a, f) : Len(written[i].bytes) = 2
               ELSE ChunksOf("opt34", a, f) = {}

\* the declared counts of the animation header against what was parsed
ParsedTotalsDiffer ==
    \/ Len(animations) # num_anims
    \/ TotalFrames # num_frames
    \/ TotalSubframes # num_subframes

\* C3: Load fails with PRTLoadError whenever the declared numAnims, numFrames
\* or numSubframes differs from the animations, frames or subframes parsed,
\* and never succeeds with totals that differ from the declared ones.
C3_CountValidation ==
    /\ [](LoadSucceeded => ~ParsedTotalsDiffer)
    /\ [][(pc = "finish" /\ ParsedTotalsDiffer) =>
            (pc' = "error" /\ err' = "PRTLoadError")]_vars

\* numFrames = 2 declared, one frame parsed: Load has failed
C3_Witness ==
    /\ pc = "error"
    /\ err = "PRTLoadError"
    /\ msg = "incorrect number of frames loaded"
    /\ num_frames = 2
    /\ TotalFrames = 1

\* C4: after a successful Load every subframe's bitmap_id is an index into
\* bitmaps, the index having been validated during Load.
C4_SubframeBitmapIndex ==
    LoadSucceeded =>
        \A a \in DOMAIN animations : \A f \in DOMAIN animations[a].frames :
            \A k \in DOMAIN animations[a].frames[f].subframes :
                animations[a].frames[f].subframes[k].bitmap_id
                    \in 0..(Len(bitmaps) - 1)

\* C5: a bitmap entry whose paletteId is negative or at least the number of
\* palettes loaded makes Load fail with PRTLoadError before the bitmap is
\* appended, and every bitmap of the container has a palette_id in
\* 0..len(palettes)-1.
C5_PaletteIndexValidation ==
    /\ [](\A i \in DOMAIN bitmaps :
            bitmaps[i].palette_id \in 0..(Len(palettes) - 1))
    /\ [][(/\ pc = "bitmap"
           /\ nread' = 20
           /\ \/ bitmap_fields'.pal_id < 0
              \/ bitmap_fields'.pal_id >= Len(palettes)) =>
            (pc' = "error" /\ err' = "PRTLoadError" /\ bitmaps' = bitmaps)]_vars

\* paletteId = len(palettes), one past the end: Load has failed
C5_Witness ==
    /\ pc = "error"
    /\ err = "PRTLoadError"
    /\ msg = "palette_id out of range"
    /\ Len(palettes) >= 1
    /\ bitmap_fields.pal_id = Len(palettes)
    /\ Len(bitmaps) < num_bitmaps

\* C6: a read that finds fewer bytes than its field needs, in the main stream
\* or in the companion blob, aborts Load with PRTLoadError and no other error,
\* and no bitmap is loaded with fewer than paddedWidth * height pixel bytes.
C6_ShortReads ==
    /\ pc = "error" => err = "PRTLoadError"
    /\ (pc \in {"bitmap", "animhdr"} /\ bitmaps # <<>>) =>
          Len(bitmaps[Len(bitmaps)].data)
              = bitmap_fields.padded_w * bitmap_fields.h

\* C7: every count Write emits equals the length of the sequence it counts at
\* write time: the header's animation, frame and subframe counts, each
\* animation's frame count and appendix count, each frame's subframe count;
\* as many records are emitted as are declared.
C7_LiveCounts ==
    pc = "written" =>
        /\ \A i \in ChunksOf("num_anims", 0, 0) :
              UnpackU(written[i].bytes) = Len(animations)
        /\ \A i \in ChunksOf("num_frames", 0, 0) :
              UnpackU(written[i].bytes) = TotalFrames
        /\ \A i \in ChunksOf("num_subframes", 0, 0) :
              UnpackU(written[i].bytes) = TotalSubframes
        /\ \A a \in DOMAIN animations :
              /\ \A i \in ChunksOf("anim", a, 0) :
                    UnpackU(Slice(written[i].bytes, 33, 4))
                        = Len(animations[a].frames)
              /\ \A i \in ChunksOf("unknown3", a, 0) :
                    /\ UnpackU(written[i].bytes) = Len(animations[a].appendix)
                    /\ UnpackU(written[i].bytes)
                          = Cardinality(ChunksOf("appendix", a, 0))
              /\ \A f \in DOMAIN animations[a].frames :
                    \A i \in ChunksOf("frame", a, f) :
                        /\ written[i].bytes[1] % FlagBit
                              = Len(animations[a].frames[f].subframes)
                        /\ written[i].bytes[1] % FlagBit
                              = Cardinality(ChunksOf("subframe", a, f))

\* C8: in the palette section a RIFF tag, or any tag other than PPAL, head or
\* data, aborts Load with PRTLoadError once the 8-byte tag/size header is
\* read, with no further byte consumed; so does a PPAL, head or data tag
\* whose declared size is not 1048, 4 or 1024.
C8_PaletteTagHandling ==
    [][(pc = "paltag" /\ nread' >= 8) =>
        /\ (tag' \notin {TagPPAL, TagHead, TagData} =>
              pc' = "error" /\ err' = "PRTLoadError" /\ nread' = 8)
        /\ (tag' = TagPPAL /\ section_size' # 1048 =>
              pc' = "error" /\ err' = "PRTLoadError")
        /\ (tag' = TagHead /\ section_size' # 4 =>
              pc' = "error" /\ err' = "PRTLoadError")
        /\ (tag' = TagData /\ section_size' # 1024 =>
              pc' = "error" /\ err' = "PRTLoadError")]_vars

\* a RIFF tag was read where a palette sub-tag is expected: Load has failed
\* with the 8 header bytes consumed
C8_Witness ==
    /\ pc = "error"
    /\ err = "PRTLoadError"
    /\ tag = TagRIFF
    /\ msg = "RIFF tag not implemented"
    /\ nread = 8

\* C9: after a successful Load every bitmap's pixel buffer has length
\* paddedWidth * height with paddedWidth = (width + 3) & ~3, the paddedWidth
\* Write emits for it.
C9_PixelBufferSize ==
    LoadSucceeded =>
        \A i \in DOMAIN bitmaps :
            Len(bitmaps[i].data)
                = PaddedWidth(bitmaps[i].width) * bitmaps[i].height

\* C10: after a successful Load every palette holds exactly 256 colors,
\* whatever tag count the head section declares and whatever the order of the
\* tags of a palette entry.
C10_PaletteSize ==
    LoadSucceeded => \A i \in DOMAIN palettes : Len(palettes[i]) = NumColors

====
